---- MODULE Spec2Model ----
(***************************************************************************)
(* latbin/matching.py: lattice-quantised matching of two point             *)
(* collections (match, MatchingIndexer, sparse_distance_matrix,            *)
(* brute_match).                                                           *)
(*                                                                         *)
(* Numbers.  Coordinates and tolerances are integers (a fixed-point grid). *)
(* The lattice scale 1.3*tolerance and the neighbour radii 2.0 and 2.1 are *)
(* kept exact as rationals (13*tolerance/10, 20/10, 21/10).  A Euclidean   *)
(* distance sqrt(s) with s an integer squared distance is the value        *)
(* sqrt(s), written <<"sqrt", s>>.                                         *)
(*                                                                         *)
(* Indices.  Row positions and column identifiers are zero-based as in the *)
(* Python source; row i of a collection d is d.rows[i + 1].                *)
(*                                                                         *)
(* None.  An optional value is the empty set (None) or a singleton.        *)
(***************************************************************************)
EXTENDS Integers, Sequences, FiniteSets

VARIABLES
    data1,      \* the caller's first collection
    data2,      \* the caller's second collection
    tolerance,  \* the tolerance / max_dist argument
    cols,       \* the cols argument: None or a column specification
    indexer,    \* None, or the MatchingIndexer object built from data2
    call,       \* the last call made: its name and argument
    ret         \* what the last call returned or raised, with its locals

vars == <<data1, data2, tolerance, cols, indexer, call, ret>>

(***************************************************************************)
(* Bounds of the model.                                                    *)
(***************************************************************************)
MaxDim == 5     \* columns of a collection
MaxRows == 3    \* rows of the two collections together
MaxSize == 10   \* numbers in the two collections together

None == {}
Some(v) == {v}
The(opt) == CHOOSE v \in opt : TRUE

(***************************************************************************)
(* Arithmetic helpers.                                                     *)
(***************************************************************************)
\* np.sum((a - b)**2) for two rows of equal length
SqDist(a, b) ==
    LET RECURSIVE Acc(_)
        Acc(k) == IF k = 0 THEN 0 ELSE Acc(k - 1) + (a[k] - b[k]) * (a[k] - b[k])
    IN Acc(Len(a))

\* np.sqrt of an integer squared distance
Sqrt(s) == <<"sqrt", s>>

\* round(p / q) for q > 0, ties to the even integer (numpy's rounding)
Round(p, q) ==
    LET fl == (2 * p + q) \div (2 * q)
        tie == (2 * p + q) % (2 * q) = 0
    IN IF tie /\ fl % 2 = 1 THEN fl - 1 ELSE fl

\* squared Euclidean norm of an integer vector
Norm2(v) ==
    LET RECURSIVE Acc(_)
        Acc(k) == IF k = 0 THEN 0 ELSE Acc(k - 1) + v[k] * v[k]
    IN Acc(Len(v))

VecAdd(a, b) == [k \in 1..Len(a) |-> a[k] + b[k]]
VecSub(a, b) == [k \in 1..Len(a) |-> a[k] - b[k]]

(***************************************************************************)
(* latbin.lattice (not part of the sources at hand; modelled from the      *)
(* design document, section 4.1).                                          *)
(***************************************************************************)
\* ALattice(ndim, scale = num/den)
ALattice(n, num, den) == [ndim |-> n, scale_num |-> num, scale_den |-> den]

\* lat.quantize(points): round(component / scale) per component
quantize(lat, points) ==
    [i \in 1..Len(points) |->
        [k \in 1..lat.ndim |->
            Round(points[i][k] * lat.scale_den, lat.scale_num)]]

\* b to the power e
Pow(b, e) ==
    LET RECURSIVE P(_)
        P(k) == IF k = 0 THEN 1 ELSE b * P(k - 1)
    IN P(e)

\* the k-th integer vector of length n with coordinates in -fl .. fl, in
\* counting order (the last coordinate running fastest)
GridVec(k, n, fl) ==
    [j \in 1..n |-> ((k \div Pow(2 * fl + 1, n - j)) % (2 * fl + 1)) - fl]

\* the array of every integer vector of length n with norm <= radius10/10,
\* found by bounding each coordinate by floor(radius) and filtering by norm;
\* the zero vector is left out unless include_origin
Enumerate(n, radius10, include_origin) ==
    LET fl == radius10 \div 10
        Inside(v) == /\ 100 * Norm2(v) <= radius10 * radius10
                     /\ (include_origin \/ Norm2(v) # 0)
        RECURSIVE Scan(_, _)
        Scan(lo, hi) ==
            IF lo > hi THEN <<>>
            ELSE IF lo = hi
                 THEN (IF Inside(GridVec(lo, n, fl))
                       THEN <<GridVec(lo, n, fl)>> ELSE <<>>)
                 ELSE LET mid == (lo + hi) \div 2
                      IN Scan(lo, mid) \o Scan(mid + 1, hi)
    IN Scan(0, Pow(2 * fl + 1, n) - 1)

\* the neighbourhoods in use, enumerated once per dimension
NeighborhoodTable ==
    [n \in 1..MaxDim |->
        [r \in {20, 21} |-> [o \in BOOLEAN |-> Enumerate(n, r, o)]]]

\* lat.neighborhood(lattice_space_radius = radius10/10, include_origin)
neighborhood(lat, radius10, include_origin) ==
    IF lat.ndim \in DOMAIN NeighborhoodTable
    THEN NeighborhoodTable[lat.ndim][radius10][include_origin]
    ELSE Enumerate(lat.ndim, radius10, include_origin)

(***************************************************************************)
(* brute_match                                                             *)
(***************************************************************************)
\* a collection as the code sees it: an array / DataFrame of shape
\* (len(rows), ncols) whose columns are named 0 .. ncols-1
Array(n, rows) == [ncols |-> n, rows |-> rows]
len(d) == Len(d.rows)

\* the elements of a set of integers in ascending order
SortedSeq(S) ==
    LET RECURSIVE Asc(_)
        Asc(T) == IF T = {} THEN <<>>
                  ELSE LET m == CHOOSE x \in T : \A y \in T : x <= y
                       IN <<m>> \o Asc(T \ {m})
    IN Asc(S)

brute_match(d1, d2, tol) ==
    LET n1 == len(d1)
        n2 == len(d2)
        Dist(i, j) == SqDist(d1.rows[i + 1], d2.rows[j + 1])
        \* the double loop, pair k of n1*n2 being i = k div n2, j = k mod n2
        RECURSIVE Loop(_)
        Loop(k) ==
            IF k = n1 * n2 THEN <<>>
            ELSE LET i == k \div n2
                     j == k % n2
                 IN (IF Dist(i, j) <= tol * tol
                     THEN <<<<i, j, Sqrt(Dist(i, j))>>>>
                     ELSE <<>>) \o Loop(k + 1)
        found == Loop(0)
    IN [outcome |-> "return",
        idxs_1 |-> [k \in 1..Len(found) |-> found[k][1]],
        idxs_2 |-> [k \in 1..Len(found) |-> found[k][2]],
        distances |-> [k \in 1..Len(found) |-> found[k][3]]]

(***************************************************************************)
(* match                                                                   *)
(***************************************************************************)
\* a column identifier c, and a tuple (c1, c2) of column identifiers
Col(c) == <<"col", c>>
Tup(c1, c2) == <<"tuple", c1, c2>>
IsTuple(ccol) == ccol[1] = "tuple"

\* data.columns
columns(d) == [k \in 1..d.ncols |-> Col(k - 1)]

\* what one entry of cols appends to cols1 (side = 1) or cols2 (side = 2)
ColsAppended(ccol, side) ==
    IF IsTuple(ccol) THEN <<Col(ccol[side + 1]), ccol>> ELSE <<ccol>>

\* the loop over cols that fills cols1 / cols2
ResolveCols(colspec, side) ==
    LET RECURSIVE Loop(_)
        Loop(col_idx) ==
            IF col_idx > Len(colspec) THEN <<>>
            ELSE ColsAppended(colspec[col_idx], side) \o Loop(col_idx + 1)
    IN Loop(1)

\* whether data[collist] finds every label of collist among data's columns
HasCols(d, collist) ==
    \A k \in 1..Len(collist) :
        /\ ~IsTuple(collist[k])
        /\ collist[k][2] \in 0..(d.ncols - 1)

\* data[collist].values
Values(d, collist) ==
    [i \in 1..len(d) |->
        [k \in 1..Len(collist) |-> d.rows[i][collist[k][2] + 1]]]

\* BuildCdict with the unshifted cells left out of all_trans
BuildCdict_NoUnshifted(short_pts, neighbor_vecs) ==
    LET shifts == {neighbor_vecs[p] : p \in DOMAIN neighbor_vecs}
        keys == {VecAdd(short_pts[i], v) : i \in 1..Len(short_pts), v \in shifts}
    IN [ptup \in keys |->
          {i - 1 : i \in {j \in 1..Len(short_pts) :
                            VecSub(ptup, short_pts[j]) \in shifts}}]

\* BuildCdict shifting only by the neighbours whose first coordinate is >= 0
BuildCdict_OneSided(short_pts, neighbor_vecs) ==
    LET n == IF short_pts = <<>> THEN 0 ELSE Len(short_pts[1])
        unshifted == [k \in 1..n |-> 0]
        shifts == {unshifted}
                  \cup {neighbor_vecs[p] : p \in {q \in DOMAIN neighbor_vecs :
                                                    neighbor_vecs[q][1] >= 0}}
        keys == {VecAdd(short_pts[i], v) : i \in 1..Len(short_pts), v \in shifts}
    IN [ptup \in keys |->
          {i - 1 : i \in {j \in 1..Len(short_pts) :
                            VecSub(ptup, short_pts[j]) \in shifts}}]

\* the candidate table: the short points' cells and their shifted copies,
\* each key holding the set of short indices registered under it
BuildCdict(short_pts, neighbor_vecs) ==
    LET n == IF short_pts = <<>> THEN 0 ELSE Len(short_pts[1])
        unshifted == [k \in 1..n |-> 0]
        shifts == {unshifted} \cup {neighbor_vecs[p] : p \in DOMAIN neighbor_vecs}
        keys == {VecAdd(short_pts[i], v) : i \in 1..Len(short_pts), v \in shifts}
    IN [ptup \in keys |->
          {i - 1 : i \in {j \in 1..Len(short_pts) :
                            VecSub(ptup, short_pts[j]) \in shifts}}]

\* whether a candidate at squared distance dist is kept
Verified(dist, tol) == dist <= tol * tol

\* the probe loop: every long point looks its own cell up and verifies the
\* candidates by their exact squared distance
Probe(long_pts, cdict, d1vals, d2vals, tol) ==
    LET Dist(long_idx, match_idx) ==
            SqDist(d1vals[long_idx + 1], d2vals[match_idx + 1])
        RECURSIVE Inner(_, _)
        Inner(long_idx, cand) ==
            IF cand = <<>> THEN <<>>
            ELSE (IF Verified(Dist(long_idx, Head(cand)), tol)
                  THEN <<<<long_idx, Head(cand),
                           Sqrt(Dist(long_idx, Head(cand)))>>>>
                  ELSE <<>>) \o Inner(long_idx, Tail(cand))
        RECURSIVE Outer(_)
        Outer(long_idx) ==
            IF long_idx = Len(long_pts) THEN <<>>
            ELSE LET ltup == long_pts[long_idx + 1]
                 IN (IF ltup \in DOMAIN cdict
                     THEN Inner(long_idx, SortedSeq(cdict[ltup]))
                     ELSE <<>>) \o Outer(long_idx + 1)
    IN Outer(0)

\* Unswitch without the swap back
Unswitch_Forgotten(switched, found) ==
    [idxs_1 |-> [k \in 1..Len(found) |-> found[k][1]],
     idxs_2 |-> [k \in 1..Len(found) |-> found[k][2]]]

\* the index lists as returned: swapped back when the collections were
Unswitch(switched, found) ==
    IF switched
    THEN [idxs_1 |-> [k \in 1..Len(found) |-> found[k][2]],
          idxs_2 |-> [k \in 1..Len(found) |-> found[k][1]]]
    ELSE [idxs_1 |-> [k \in 1..Len(found) |-> found[k][1]],
          idxs_2 |-> [k \in 1..Len(found) |-> found[k][2]]]

\* an empty result returned where the error is raised
RaiseNotImplemented_ReturnsEmpty(locals) == [locals EXCEPT !.outcome = "return"]

\* raise NotImplementedError(): the call ends here, with the locals as they are
RaiseNotImplemented(locals) == [locals EXCEPT !.outcome = "NotImplementedError"]

\* match(data1, data2, tolerance, cols): the outcome and the locals at exit
match(d1, d2, tol, colarg) ==
    LET colspec == IF colarg = None THEN columns(d1) ELSE The(colarg)
        nmatch_cols == Len(colspec)
        cols1 == ResolveCols(colspec, 1)
        cols2 == ResolveCols(colspec, 2)
        begun == [outcome |-> "running",
                  nmatch_cols |-> nmatch_cols, cols1 |-> cols1, cols2 |-> cols2,
                  qlat |-> None, switched |-> FALSE, cdict |-> None,
                  idxs_1 |-> <<>>, idxs_2 |-> <<>>, distances |-> <<>>]
    IN IF tol <= 0 THEN RaiseNotImplemented(begun)
       ELSE
         LET qlat == ALattice(nmatch_cols, 13 * tol, 10)
             switched == len(d2) > len(d1)
             long == IF switched THEN d2 ELSE d1
             short == IF switched THEN d1 ELSE d2
         IN IF ~HasCols(long, cols1) \/ ~HasCols(short, cols2)
            THEN [begun EXCEPT !.outcome = "KeyError", !.qlat = Some(qlat),
                               !.switched = switched]
            ELSE
              LET d1vals == Values(long, cols1)
                  d2vals == Values(short, cols2)
                  long_pts == quantize(qlat, d1vals)
                  short_pts == quantize(qlat, d2vals)
                  neighbor_vecs == neighborhood(qlat, 21, FALSE)
                  cdict == BuildCdict(short_pts, neighbor_vecs)
                  found == Probe(long_pts, cdict, d1vals, d2vals, tol)
                  idxs == Unswitch(switched, found)
              IN [outcome |-> "return",
                  nmatch_cols |-> nmatch_cols, cols1 |-> cols1, cols2 |-> cols2,
                  qlat |-> Some(qlat), switched |-> switched,
                  cdict |-> Some(cdict),
                  idxs_1 |-> idxs.idxs_1, idxs_2 |-> idxs.idxs_2,
                  distances |-> [k \in 1..Len(found) |-> found[k][3]]]

(***************************************************************************)
(* MatchingIndexer                                                         *)
(***************************************************************************)
\* the dictionary after the two nested loops of __init__ have run over the
\* (shift_idx, xq_idx) numbered lo .. hi in loop order: every key holds the
\* list of the xq_idx appended under it, in the order of the appends
Register(xquant, neighborhood_vecs, lo, hi) ==
    LET npts == Len(xquant)
        RECURSIVE Run(_, _)
        Run(a, b) ==
            IF a > b THEN <<>>
            ELSE IF a = b
                 THEN LET shift_vec == neighborhood_vecs[(a \div npts) + 1]
                          xq_idx == a % npts
                          xtup == VecAdd(xquant[xq_idx + 1], shift_vec)
                      IN [t \in {xtup} |-> <<xq_idx>>]
                 ELSE LET mid == (a + b) \div 2
                          first == Run(a, mid)
                          rest == Run(mid + 1, b)
                      IN [t \in (DOMAIN first) \cup (DOMAIN rest) |->
                            (IF t \in DOMAIN first THEN first[t] ELSE <<>>)
                            \o (IF t \in DOMAIN rest THEN rest[t] ELSE <<>>)]
    IN Run(lo, hi)

\* MatchingIndexerInit with the origin left out of the neighbourhood
MatchingIndexerInit_NoOrigin(x, tol) ==
    LET npts == len(x)
        lat == ALattice(x.ncols, 13 * tol, 10)
        neighborhood_vecs == neighborhood(lat, 20, FALSE)
        xquant == quantize(lat, x.rows)
    IN [x |-> x,
        tolerance |-> tol,
        lat |-> lat,
        neighborhood_vecs |-> neighborhood_vecs,
        matching_dict |->
            Register(xquant, neighborhood_vecs, 0,
                     Len(neighborhood_vecs) * npts - 1)]

\* MatchingIndexerInit registering the unshifted cells first, as match does,
\* and then every neighbour, the origin among them
MatchingIndexerInit_OwnCellTwice(x, tol) ==
    LET npts == len(x)
        lat == ALattice(x.ncols, 13 * tol, 10)
        neighborhood_vecs == <<[k \in 1..x.ncols |-> 0]>>
                             \o neighborhood(lat, 20, TRUE)
        xquant == quantize(lat, x.rows)
    IN [x |-> x,
        tolerance |-> tol,
        lat |-> lat,
        neighborhood_vecs |-> neighborhood_vecs,
        matching_dict |->
            Register(xquant, neighborhood_vecs, 0,
                     Len(neighborhood_vecs) * npts - 1)]

\* MatchingIndexer(x, tolerance): the object's attributes
MatchingIndexerInit(x, tol) ==
    LET npts == len(x)
        lat == ALattice(x.ncols, 13 * tol, 10)
        neighborhood_vecs == neighborhood(lat, 20, TRUE)
        xquant == quantize(lat, x.rows)
    IN [x |-> x,
        tolerance |-> tol,
        lat |-> lat,
        neighborhood_vecs |-> neighborhood_vecs,
        matching_dict |->
            Register(xquant, neighborhood_vecs, 0,
                     Len(neighborhood_vecs) * npts - 1)]

\* a lookup that stores the default under an absent key (setdefault)
DictAfterGet_Inserting(matching_dict, xtup) ==
    [t \in (DOMAIN matching_dict) \cup {xtup} |->
        IF t \in DOMAIN matching_dict THEN matching_dict[t] ELSE <<>>]

\* self.matching_dict.get(xtup, []) as it leaves the dictionary
DictAfterGet(matching_dict, xtup) == matching_dict

\* whether the indexer keeps a candidate at squared distance dist_sq
IndexerVerified(dist_sq, tol) == dist_sq < tol * tol

\* MatchingIndexer.match(x): the returned pairs and distances, and the
\* dictionary as the lookups leave it
IndexerMatch(self, x) ==
    LET n_out == len(x)
        xquant == quantize(self.lat, x.rows)
        RECURSIVE Lookups(_, _)
        Lookups(out_idx, dict) ==
            IF out_idx = n_out THEN [potential_matches |-> <<>>, dict |-> dict]
            ELSE LET xtup == xquant[out_idx + 1]
                     cp_matches == IF xtup \in DOMAIN dict THEN dict[xtup]
                                   ELSE <<>>
                     later == Lookups(out_idx + 1, DictAfterGet(dict, xtup))
                 IN [potential_matches |->
                        [k \in 1..Len(cp_matches) |-> <<out_idx, cp_matches[k]>>]
                        \o later.potential_matches,
                     dict |-> later.dict]
        looked == Lookups(0, self.matching_dict)
        DistSq(m) == SqDist(x.rows[m[1] + 1], self.x.rows[m[2] + 1])
        RECURSIVE Clean(_)
        Clean(pm) ==
            IF pm = <<>> THEN <<>>
            ELSE (IF IndexerVerified(DistSq(Head(pm)), self.tolerance)
                  THEN <<<<Head(pm), Sqrt(DistSq(Head(pm)))>>>>
                  ELSE <<>>) \o Clean(Tail(pm))
        kept == Clean(looked.potential_matches)
    IN [outcome |-> "return",
        cleaned_matches |-> [k \in 1..Len(kept) |-> kept[k][1]],
        distances |-> [k \in 1..Len(kept) |-> kept[k][2]],
        matching_dict |-> looked.dict]

\* scipy.sparse.coo_matrix((data, (row, col)), shape): the stored entries,
\* one per position of the three parallel arrays
coo_matrix(data, row, col, shape) ==
    [outcome |-> "return", shape |-> shape,
     row |-> row, col |-> col, data |-> data]

\* MatchingIndexer.distance_matrix(x); an empty list of pairs becomes an
\* array without a second axis, which coo_matrix refuses
IndexerDistanceMatrix(self, x) ==
    LET m == IndexerMatch(self, x)
        idxs == m.cleaned_matches
        made == IF idxs = <<>>
                THEN [outcome |-> "TypeError"]
                ELSE coo_matrix(m.distances,
                                [k \in 1..Len(idxs) |-> idxs[k][1]],
                                [k \in 1..Len(idxs) |-> idxs[k][2]],
                                <<len(x), len(self.x)>>)
    IN [coomat |-> made, matching_dict |-> m.matching_dict]

(***************************************************************************)
(* sparse_distance_matrix                                                  *)
(***************************************************************************)
\* the default kernel exp(-0.5 * x**2) at x = sqrt(s): the value exp(-s/2)
DefaultRbf(x) == <<"exp", 0 - x[2], 2>>

\* a kernel passed by the caller: lambda x: x
CallerRbf(x) == x

sparse_distance_matrix(d1, second, max_dist, rbf, colarg) ==
    LET d2 == IF second = None THEN d1 ELSE The(second)
        Kernel(x) == IF rbf = "None" THEN DefaultRbf(x) ELSE CallerRbf(x)
        m == match(d1, d2, max_dist, colarg)
    IN IF m.outcome # "return" THEN [outcome |-> m.outcome]
       ELSE coo_matrix([k \in 1..Len(m.distances) |-> Kernel(m.distances[k])],
                       m.idxs_1, m.idxs_2, <<len(d1), len(d2)>>)

(***************************************************************************)
(* Inputs.  Tolerance 10 is one unit of length: the lattice scale is then  *)
(* 13, coordinate -7 lies in cell -1 and coordinates -6 and 4 in cell 0.   *)
(* With tolerance 3 the scale is 3.9 and the cells are -2, -2 and 1.       *)
(***************************************************************************)
Tolerances == {0 - 10, 0, 3, 10}

\* the point with every coordinate a
Const(n, a) == [k \in 1..n |-> a]
\* the point with first coordinate a and every other coordinate b
Offset(n, a, b) == [k \in 1..n |-> IF k = 1 THEN a ELSE b]

\* two points one step apart in every coordinate, across a cell boundary,
\* and a third at distance 10 exactly from the second
PointsOf(n) == {Const(n, 0 - 7), Const(n, 0 - 6), Offset(n, 4, 0 - 6)}

\* the arrays of n columns and l rows
ArraysOf(n, l) == {Array(n, rows) : rows \in [1..l -> PointsOf(n)]}

\* the row counts of the two collections when they have n columns
RowCounts(n) ==
    {c \in (0..MaxRows) \X (0..MaxRows) :
        /\ c[1] + c[2] <= MaxRows
        /\ (c[1] + c[2]) * n <= MaxSize}

NoCall == [op |-> "none", second |-> "-", rbf |-> "-", x |-> "-"]
NoRet == [outcome |-> "none"]

Init ==
    /\ \E n \in 1..MaxDim : \E c \in RowCounts(n) :
          /\ data1 \in ArraysOf(n, c[1])
          /\ data2 \in ArraysOf(n, c[2])
    /\ tolerance \in Tolerances
    /\ cols = None
    /\ indexer = None
    /\ call = NoCall
    /\ ret = NoRet

inputs == <<data1, data2, tolerance, cols>>

(***************************************************************************)
(* The calls.                                                              *)
(***************************************************************************)
CallBruteMatch ==
    /\ call' = [NoCall EXCEPT !.op = "brute_match"]
    /\ ret' = brute_match(data1, data2, tolerance)
    /\ UNCHANGED <<inputs, indexer>>

CallMatch ==
    /\ call' = [NoCall EXCEPT !.op = "match"]
    /\ ret' = match(data1, data2, tolerance, cols)
    /\ UNCHANGED <<inputs, indexer>>

CallSparseDistanceMatrix ==
    \E arg \in {<<"None", "None">>, <<"None", "caller">>, <<"data2", "None">>} :
      LET second == arg[1]
          rbf == arg[2]
      IN
        /\ call' = [NoCall EXCEPT !.op = "sparse_distance_matrix",
                                  !.second = second, !.rbf = rbf]
        /\ ret' = sparse_distance_matrix(
                      data1, IF second = "None" THEN None ELSE Some(data2),
                      tolerance, rbf, cols)
        /\ UNCHANGED <<inputs, indexer>>

\* indexer = MatchingIndexer(data2, tolerance)
NewMatchingIndexer ==
    /\ indexer = None
    /\ tolerance > 0
    /\ indexer' = Some(MatchingIndexerInit(data2, tolerance))
    /\ call' = [NoCall EXCEPT !.op = "MatchingIndexer"]
    /\ ret' = NoRet
    /\ UNCHANGED inputs

Query(x) == IF x = "data1" THEN data1 ELSE data2

\* indexer.match(x)
CallIndexerMatch ==
    /\ indexer # None
    /\ \E x \in {"data1", "data2"} :
          LET m == IndexerMatch(The(indexer), Query(x))
          IN /\ call' = [NoCall EXCEPT !.op = "indexer.match", !.x = x]
             /\ ret' = [outcome |-> m.outcome,
                        cleaned_matches |-> m.cleaned_matches,
                        distances |-> m.distances]
             /\ indexer' = Some([The(indexer) EXCEPT
                                   !.matching_dict = m.matching_dict])
    /\ UNCHANGED inputs

\* indexer.distance_matrix(x)
CallIndexerDistanceMatrix ==
    /\ indexer # None
    /\ \E x \in {"data1", "data2"} :
          LET m == IndexerDistanceMatrix(The(indexer), Query(x))
          IN /\ call' = [NoCall EXCEPT !.op = "indexer.distance_matrix",
                                       !.x = x]
             /\ ret' = m.coomat
             /\ indexer' = Some([The(indexer) EXCEPT
                                   !.matching_dict = m.matching_dict])
    /\ UNCHANGED inputs

Next ==
    \/ CallBruteMatch
    \/ CallMatch
    \/ CallSparseDistanceMatrix
    \/ NewMatchingIndexer
    \/ CallIndexerMatch
    \/ CallIndexerDistanceMatrix

Spec == Init /\ [][Next]_vars

(***************************************************************************)
(* The same calls with a column specification: collections of three or     *)
(* more columns, matched on one or two of them.                            *)
(***************************************************************************)
ColEntries == {Col(0), Col(2), Tup(0, 1)}

ColSpecs == UNION {[1..l -> ColEntries] : l \in 1..2}

InitCols ==
    /\ \E n \in 3..MaxDim : \E c \in RowCounts(n) :
          /\ data1 \in ArraysOf(n, c[1])
          /\ data2 \in ArraysOf(n, c[2])
    /\ tolerance \in {t \in Tolerances : t > 0}
    /\ cols \in {Some(cs) : cs \in ColSpecs}
    /\ indexer = None
    /\ call = NoCall
    /\ ret = NoRet

NextCols ==
    \/ CallMatch
    \/ CallSparseDistanceMatrix

SpecCols == InitCols /\ [][NextCols]_vars

(***************************************************************************)
(* Properties.                                                             *)
(***************************************************************************)
Rows(d) == 0..(len(d) - 1)
Row(d, i) == d.rows[i + 1]

\* the index pairs, and the entries (i, j, d), of a returned result
Pairs(r) == {<<r.idxs_1[k], r.idxs_2[k]>> : k \in 1..Len(r.idxs_1)}
Triples(r) ==
    {<<r.idxs_1[k], r.idxs_2[k], r.distances[k]>> : k \in 1..Len(r.idxs_1)}

MatchReturned == call.op = "match" /\ ret.outcome = "return"

\* C1: match returns every index pair (i, j) whose rows lie within tolerance
\* of each other; its pair set contains the pair set of brute_match.
C1_NoFalseNegatives ==
    MatchReturned =>
        /\ \A i \in Rows(data1), j \in Rows(data2) :
              SqDist(Row(data1, i), Row(data2, j)) <= tolerance * tolerance
                  => <<i, j>> \in Pairs(ret)
        /\ Pairs(brute_match(data1, data2, tolerance)) \subseteq Pairs(ret)

\* C2: every entry (i, j, d) returned by match has i a row of the caller's
\* data1, j a row of the caller's data2, the two rows within tolerance, and
\* d their distance; whether or not the collections were swapped inside.
C2_NoFalsePositives ==
    MatchReturned =>
        /\ Len(ret.idxs_1) = Len(ret.idxs_2)
        /\ Len(ret.idxs_1) = Len(ret.distances)
        /\ \A k \in 1..Len(ret.idxs_1) :
              /\ ret.idxs_1[k] \in Rows(data1)
              /\ ret.idxs_2[k] \in Rows(data2)
              /\ LET dist == SqDist(Row(data1, ret.idxs_1[k]),
                                    Row(data2, ret.idxs_2[k]))
                 IN /\ dist <= tolerance * tolerance
                    /\ ret.distances[k] = Sqrt(dist)

\* a swapped call returned a pair whose two indices differ
C2_Witness ==
    /\ MatchReturned
    /\ ret.switched
    /\ \E k \in 1..Len(ret.idxs_1) : ret.idxs_1[k] # ret.idxs_2[k]

\* C3: match(data1, data2) and match(data2, data1) return transposed index
\* pairs with the same distances.
C3_SwapInvariance ==
    MatchReturned =>
        Triples(ret) =
            {<<t[2], t[1], t[3]>> :
                t \in Triples(match(data2, data1, tolerance, cols))}

\* two collections of equal length, so that neither call swaps, whose rows
\* lie in different cells and are matched
C3_Witness ==
    /\ MatchReturned
    /\ len(data1) = len(data2)
    /\ ~ret.switched
    /\ \E k \in 1..Len(ret.idxs_1) :
          quantize(The(ret.qlat), <<Row(data1, ret.idxs_1[k])>>)
              # quantize(The(ret.qlat), <<Row(data2, ret.idxs_2[k])>>)

\* C4: the pairs MatchingIndexer(data2, tolerance).match(data1) returns are
\* the pairs of match(data1, data2, tolerance) whose distance is not exactly
\* the tolerance.
C4_IndexerFunctionEquivalence ==
    (call.op = "indexer.match" /\ call.x = "data1") =>
        LET m == match(data1, data2, tolerance, None)
        IN {ret.cleaned_matches[k] : k \in 1..Len(ret.cleaned_matches)}
           = {<<t[1], t[2]>> :
                t \in {u \in Triples(m) : u[3] # Sqrt(tolerance * tolerance)}}

\* the indexer returned a pair while match also has one at the tolerance
C4_Witness ==
    /\ call.op = "indexer.match" /\ call.x = "data1"
    /\ ret.cleaned_matches # <<>>
    /\ \E t \in Triples(match(data1, data2, tolerance, None)) :
          t[3] = Sqrt(tolerance * tolerance)

\* C5: a call of match with tolerance <= 0 ends in NotImplementedError with
\* no lattice, no candidate table and no pair made, and leaves the inputs
\* alone; with tolerance > 0 it never ends in NotImplementedError.
C5_UnsupportedTolerance ==
    [][call'.op = "match" =>
          /\ inputs' = inputs
          /\ tolerance <= 0 =>
                /\ ret'.outcome = "NotImplementedError"
                /\ ret'.qlat = None
                /\ ret'.cdict = None
                /\ ret'.idxs_1 = <<>> /\ ret'.idxs_2 = <<>>
                /\ ret'.distances = <<>>
          /\ tolerance > 0 => ret'.outcome # "NotImplementedError"]_vars

\* match was called with a tolerance <= 0 on two collections that hold rows
C5_Witness ==
    /\ call.op = "match"
    /\ tolerance <= 0
    /\ len(data1) > 0 /\ len(data2) > 0
    /\ ret.outcome = "NotImplementedError"

\* C6: sparse_distance_matrix of a collection against itself, max_dist > 0,
\* has at every (i, i) an entry whose value is the kernel at distance 0.
C6_SelfMatchDiagonal ==
    (/\ call.op = "sparse_distance_matrix"
     /\ call.second = "None"
     /\ tolerance > 0) =>
        /\ ret.outcome = "return"
        /\ ret.shape = <<len(data1), len(data1)>>
        /\ \A i \in Rows(data1) :
              \E k \in 1..Len(ret.data) :
                  /\ ret.row[k] = i
                  /\ ret.col[k] = i
                  /\ ret.data[k] = IF call.rbf = "None"
                                   THEN DefaultRbf(Sqrt(0))
                                   ELSE CallerRbf(Sqrt(0))

\* a self-match of a collection of two rows in different cells
C6_Witness ==
    /\ call.op = "sparse_distance_matrix"
    /\ call.second = "None"
    /\ tolerance > 0
    /\ len(data1) = 2
    /\ Row(data1, 0) # Row(data1, 1)
    /\ Len(ret.data) > 2

\* C7: match resolves a column specification into two column lists with one
\* entry per entry of cols: (c, c) for an identifier c, (c1, c2) for a pair;
\* the columns compared are as many as the lattice has dimensions.
C7_ColumnSpecification ==
    (call.op = "match" /\ cols # None /\ tolerance > 0) =>
        LET colspec == The(cols)
        IN /\ ret.outcome = "return"
           /\ Len(ret.cols1) = Len(colspec)
           /\ Len(ret.cols2) = Len(colspec)
           /\ ret.nmatch_cols = Len(ret.cols1)
           /\ \A k \in 1..Len(colspec) :
                 IF IsTuple(colspec[k])
                 THEN /\ ret.cols1[k] = Col(colspec[k][2])
                      /\ ret.cols2[k] = Col(colspec[k][3])
                 ELSE /\ ret.cols1[k] = colspec[k]
                      /\ ret.cols2[k] = colspec[k]

\* C8: the matrix of a collection against itself has an entry at (i, j) if
\* and only if the squared distance of rows i and j is below max_dist^2.
C8_EntryIffStrictlyCloser ==
    (/\ call.op = "sparse_distance_matrix"
     /\ call.second = "None"
     /\ ret.outcome = "return") =>
        \A i \in Rows(data1), j \in Rows(data1) :
            (\E k \in 1..Len(ret.data) : ret.row[k] = i /\ ret.col[k] = j)
            <=> SqDist(Row(data1, i), Row(data1, j)) < tolerance * tolerance

\* C9: once built, the indexer (its table with its keys, its reference
\* collection, tolerance and offsets) never changes, and a query returns
\* what it returns on the freshly built indexer.
C9_IndexerReadOnly ==
    [][/\ indexer # None => indexer' = indexer
       /\ call'.op = "indexer.match" =>
             LET fresh == IndexerMatch(MatchingIndexerInit(data2, tolerance),
                                       Query(call'.x))
             IN /\ ret'.cleaned_matches = fresh.cleaned_matches
                /\ ret'.distances = fresh.distances]_vars

\* a query looked up a cell that is no key of the table built from a
\* collection that holds rows
C9_Witness ==
    /\ indexer # None
    /\ call.op \in {"indexer.match", "indexer.distance_matrix"}
    /\ len(data2) > 0
    /\ LET self == The(indexer)
           xquant == quantize(self.lat, Query(call.x).rows)
       IN \E i \in DOMAIN xquant : xquant[i] \notin DOMAIN self.matching_dict

\* whether a sequence holds no element twice
NoRepeat(seq) == \A k, l \in DOMAIN seq : seq[k] = seq[l] => k = l

\* C10: neither match nor MatchingIndexer.match returns an index pair
\* twice, and the sparse matrices hold one entry per matched pair.
C10_NoDuplicatePairs ==
    /\ MatchReturned =>
          NoRepeat([k \in 1..Len(ret.idxs_1) |->
                       <<ret.idxs_1[k], ret.idxs_2[k]>>])
    /\ call.op = "indexer.match" => NoRepeat(ret.cleaned_matches)
    /\ (/\ call.op \in {"sparse_distance_matrix", "indexer.distance_matrix"}
        /\ ret.outcome = "return") =>
          NoRepeat([k \in 1..Len(ret.row) |-> <<ret.row[k], ret.col[k]>>])

\* two rows of a collection are registered under a common key and both
\* come back for one query row
C10_Witness ==
    /\ call.op = "indexer.match"
    /\ \E k, l \in 1..Len(ret.cleaned_matches) :
          /\ k # l
          /\ ret.cleaned_matches[k][1] = ret.cleaned_matches[l][1]

====
